---- MODULE Spec2Model ----
(***************************************************************************)
(* Bookings, waitlist and task outbox of the event planner API             *)
(* (event_planner_api/app/services/booking_service.py, task_service.py,    *)
(* settings_service.py).  The SQLite tables are sets of rows; every        *)
(* service method is one action of the sequential specification Spec, and  *)
(* create_booking is also split into its individual statements in the      *)
(* specification SpecConc, where several connections interleave.           *)
(***************************************************************************)
EXTENDS Integers, Sequences, FiniteSets, TLC

\* ------------------------------------------------------------------ bounds
NumUsers == 2
NumEvents == 1
MaxCapacity == 2
MaxGroupSize == 2
MaxBookings == 3
MaxWaitlist == 2
MaxTasks == 6
NumProcs == 2

\* ------------------------------------------------- constants of the program
Messengers == <<"telegram", "vk", "max">>
NoTime == -1
PromotedGroupSize == 1

Users == 1..NumUsers
Events == 1..NumEvents
UnknownUser == 0
UnknownEvent == 0
GroupSizes == 1..MaxGroupSize
Procs == 1..NumProcs

VARIABLES
    capacity,       \* events.max_participants, per event id
    bookings,       \* rows of table bookings
    waitlist,       \* rows of table waitlist
    tasks,          \* rows of table tasks
    setting,        \* row of table settings with key waitlist_auto_promote
    nextBookingId,  \* AUTOINCREMENT counters
    nextWaitId,
    nextTaskId,
    last,           \* the last completed call and its outcome
    pc,             \* SpecConc: statement each connection is at
    loc,            \* SpecConc: local variables of each connection
    dbLock,         \* SpecConc: connection holding SQLite's write lock, 0 if none
    mailings,       \* rows of table mailings
    nextMailingId,  \* AUTOINCREMENT counter of table mailings
    txn             \* uncommitted tables of the connection holding the write lock

vars == <<capacity, bookings, waitlist, tasks, setting,
          nextBookingId, nextWaitId, nextTaskId, last, pc, loc, dbLock,
          mailings, nextMailingId, txn>>

store == <<bookings, waitlist, tasks, setting, nextBookingId, nextWaitId, nextTaskId>>
procvars == <<pc, loc, dbLock>>

\* ------------------------------------------------------------ SQL helpers
RECURSIVE SumGroupSize(_)
SumGroupSize(rows) ==
    IF rows = {} THEN 0
    ELSE LET r == CHOOSE x \in rows : TRUE
         IN r.group_size + SumGroupSize(rows \ {r})

\* SELECT COALESCE(SUM(group_size), 0) FROM bookings WHERE event_id = ?
OccupiedIn(bk, e) == SumGroupSize({b \in bk : b.event_id = e})
Occupied(e) == OccupiedIn(bookings, e)

EntriesIn(wl, e) == {w \in wl : w.event_id = e}
Entries(e) == EntriesIn(waitlist, e)

RECURSIVE SetMax(_)
SetMax(S) ==
    IF S = {} THEN 0
    ELSE LET x == CHOOSE y \in S : TRUE
             m == SetMax(S \ {x})
         IN IF x > m THEN x ELSE m

\* the next position taken from the number of entries instead of the maximum
NextPosition_count(wl, e) == Cardinality(EntriesIn(wl, e)) + 1

\* SELECT COALESCE(MAX(position), 0) + 1 FROM waitlist WHERE event_id = ?
NextPosition(wl, e) == SetMax({w.position : w \in EntriesIn(wl, e)}) + 1

\* the head query with ORDER BY position DESC
Heads_desc(wl, e) ==
    {w \in EntriesIn(wl, e) : \A x \in EntriesIn(wl, e) : w.position >= x.position}

\* ... ORDER BY position ASC LIMIT 1: the rows the query may return
Heads(wl, e) ==
    {w \in EntriesIn(wl, e) : \A x \in EntriesIn(wl, e) : w.position <= x.position}

\* settings row for key waitlist_auto_promote; type "absent" when there is no row
NoSetting == [value |-> "", type |-> "absent"]

\* SettingsService._serialize
Serialize(value, type_str) ==
    IF type_str = "bool" THEN (IF value = "True" THEN "1" ELSE "0")
    ELSE value

\* SettingsService._deserialize followed by Python truthiness of the value
DeserializeTruthy(row) ==
    IF row.type = "bool" THEN row.value \notin {"0", "false", "False", ""}
    ELSE row.value # ""

\* delete_booking_with_promotion: auto = setting["value"] if setting else True;
\* except Exception: auto = True
AutoPromote(row, readFails) ==
    IF readFails THEN TRUE
    ELSE IF row.type = "absent" THEN TRUE
    ELSE DeserializeTruthy(row)


\* outcome of a call: the operation, its result, the id of the row it created
\* (0 if none) and the ids of the rows it moved or returned, in order
NoLast == [op |-> "none", res |-> "none", id |-> 0, promoted |-> <<>>]

Result(op, res, id) == [op |-> op, res |-> res, id |-> id, promoted |-> <<>>]

\* local variables of one connection running a call statement by statement:
\* event, user, group size (create) / clamped target position (reposition) /
\* lastrowid (confirm), the occupied sum read, the position read, the row id,
\* the waitlist ids moved so far (promotion)
NoLocals == [e |-> 0, u |-> 0, n |-> 0, booked |-> 0, position |-> 0, row |-> 0,
             moved |-> <<>>]

BookingRow(id, u, e, n) == [id |-> id, user_id |-> u, event_id |-> e, group_size |-> n]
WaitRow(id, e, u, p) == [id |-> id, event_id |-> e, user_id |-> u, position |-> p]
TaskRow(id, t, o, m, s) ==
    [id |-> id, type |-> t, object_id |-> o, messenger |-> m,
     scheduled_at |-> s, status |-> "pending"]

\* no transaction is open: nothing is uncommitted
NoTxn == [wl |-> {}, bk |-> {}]

\* ------------------------------------------------------------------- Init
Init ==
    /\ capacity \in [Events -> 1..MaxCapacity]
    /\ bookings = {}
    /\ waitlist = {}
    /\ tasks = {}
    /\ setting = NoSetting
    /\ nextBookingId = 1
    /\ nextWaitId = 1
    /\ nextTaskId = 1
    /\ last = NoLast
    /\ pc = [p \in Procs |-> "idle"]
    /\ loc = [p \in Procs |-> NoLocals]
    /\ dbLock = 0
    /\ mailings = {}
    /\ nextMailingId = 1
    /\ txn = NoTxn

\* create_booking with the capacity test written as  <  instead of  <=
create_booking_strict(e, u, n) ==
    /\ UNCHANGED <<capacity, mailings, nextMailingId, txn, tasks, setting, nextTaskId, procvars>>
    /\ IF u \notin Users
       THEN /\ last' = Result("create", "no_user", 0)
            /\ UNCHANGED <<bookings, waitlist, nextBookingId, nextWaitId>>
       ELSE IF e \notin Events
       THEN /\ last' = Result("create", "no_event", 0)
            /\ UNCHANGED <<bookings, waitlist, nextBookingId, nextWaitId>>
       ELSE IF Occupied(e) + n < capacity[e]
       THEN /\ nextBookingId <= MaxBookings
            /\ bookings' = bookings \cup {BookingRow(nextBookingId, u, e, n)}
            /\ nextBookingId' = nextBookingId + 1
            /\ last' = Result("create", "booked", nextBookingId)
            /\ UNCHANGED <<waitlist, nextWaitId>>
       ELSE /\ nextWaitId <= MaxWaitlist
            /\ waitlist' = waitlist \cup
                   {WaitRow(nextWaitId, e, u, NextPosition(waitlist, e))}
            /\ nextWaitId' = nextWaitId + 1
            /\ last' = Result("create", "waitlisted", nextWaitId)
            /\ UNCHANGED <<bookings, nextBookingId>>

\* ------------------------------------------------- BookingService.create_booking
\* max_wait bounds the waitlist ids the model hands out
create_booking_upto(e, u, n, max_wait) ==
    /\ UNCHANGED <<capacity, mailings, nextMailingId, txn, tasks, setting, nextTaskId, procvars>>
    /\ IF u \notin Users
       THEN /\ last' = Result("create", "no_user", 0)
            /\ UNCHANGED <<bookings, waitlist, nextBookingId, nextWaitId>>
       ELSE IF e \notin Events
       THEN /\ last' = Result("create", "no_event", 0)
            /\ UNCHANGED <<bookings, waitlist, nextBookingId, nextWaitId>>
       ELSE IF Occupied(e) + n <= capacity[e]
       THEN /\ nextBookingId <= MaxBookings
            /\ bookings' = bookings \cup {BookingRow(nextBookingId, u, e, n)}
            /\ nextBookingId' = nextBookingId + 1
            /\ last' = Result("create", "booked", nextBookingId)
            /\ UNCHANGED <<waitlist, nextWaitId>>
       ELSE /\ nextWaitId <= max_wait
            /\ waitlist' = waitlist \cup
                   {WaitRow(nextWaitId, e, u, NextPosition(waitlist, e))}
            /\ nextWaitId' = nextWaitId + 1
            /\ last' = Result("create", "waitlisted", nextWaitId)
            /\ UNCHANGED <<bookings, nextBookingId>>

create_booking(e, u, n) == create_booking_upto(e, u, n, MaxWaitlist)

CreateBooking ==
    \E e \in Events \cup {UnknownEvent}, u \in Users \cup {UnknownUser}, n \in GroupSizes :
        create_booking(e, u, n)

\* update_booking that refuses a group_size the event has no seats for
update_booking_capped(id, gs) ==
    /\ UNCHANGED <<capacity, mailings, nextMailingId, txn, waitlist, tasks, setting,
                   nextBookingId, nextWaitId, nextTaskId, procvars>>
    /\ IF ~ \E b \in bookings : b.id = id
       THEN /\ last' = Result("update", "not_found", 0)
            /\ UNCHANGED bookings
       ELSE LET b == CHOOSE x \in bookings : x.id = id
            IN IF gs # 0 /\ Occupied(b.event_id) - b.group_size + gs > capacity[b.event_id]
               THEN /\ last' = Result("update", "no_seats", 0)
                    /\ UNCHANGED bookings
               ELSE /\ bookings' = IF gs = 0 THEN bookings
                                   ELSE (bookings \ {b}) \cup
                                        {BookingRow(id, b.user_id, b.event_id, gs)}
                    /\ last' = Result("update", "ok", 0)

\* ------------------------------------------------- BookingService.update_booking
NoSize == 0

update_booking(id, gs) ==
    /\ UNCHANGED <<capacity, mailings, nextMailingId, txn, waitlist, tasks, setting,
                   nextBookingId, nextWaitId, nextTaskId, procvars>>
    /\ IF ~ \E b \in bookings : b.id = id
       THEN /\ last' = Result("update", "not_found", 0)
            /\ UNCHANGED bookings
       ELSE LET b == CHOOSE x \in bookings : x.id = id
            IN /\ bookings' = IF gs = NoSize THEN bookings
                              ELSE (bookings \ {b}) \cup
                                   {BookingRow(id, b.user_id, b.event_id, gs)}
               /\ last' = Result("update", "ok", 0)

UpdateBooking ==
    \E id \in 1..MaxBookings, gs \in GroupSizes \cup {NoSize} : update_booking(id, gs)

\* the promotion loop written as an  if : at most one entry is promoted
PromoteLoop_once(e, bk, wl, nb, seats, promoted) ==
    IF seats < capacity[e] /\ EntriesIn(wl, e) # {}
    THEN { [bk |-> bk \cup {BookingRow(nb, w.user_id, e, PromotedGroupSize)},
            wl |-> wl \ {w}, nb |-> nb + 1, promoted |-> Append(promoted, w.id)]
           : w \in Heads(wl, e) }
    ELSE {[bk |-> bk, wl |-> wl, nb |-> nb, promoted |-> promoted]}

\* ------------------------------------- BookingService._promote_from_waitlist
\* The set of final stores of the while loop; st.promoted lists the waitlist
\* ids in the order they were moved.
RECURSIVE PromoteLoop(_, _, _, _, _, _)
PromoteLoop(e, bk, wl, nb, seats, promoted) ==
    IF seats < capacity[e] /\ EntriesIn(wl, e) # {}
    THEN UNION { PromoteLoop(e,
                             bk \cup {BookingRow(nb, w.user_id, e, PromotedGroupSize)},
                             wl \ {w},
                             nb + 1,
                             seats + 1,
                             Append(promoted, w.id)) : w \in Heads(wl, e) }
    ELSE {[bk |-> bk, wl |-> wl, nb |-> nb, promoted |-> promoted]}

promote_from_waitlist(e, bk, wl, nb) ==
    PromoteLoop(e, bk, wl, nb, OccupiedIn(bk, e), <<>>)

\* create_waitlist_tasks that leaves out the last messenger of the list
RECURSIVE create_waitlist_tasks_short(_, _, _, _)
create_waitlist_tasks_short(entry_id, ts, nt, i) ==
    IF i >= Len(Messengers) THEN [ts |-> ts, nt |-> nt]
    ELSE create_waitlist_tasks_short(entry_id,
                               ts \cup {TaskRow(nt, "waitlist", entry_id, Messengers[i], NoTime)},
                               nt + 1, i + 1)

\* ------------------------------------------ TaskService.create_waitlist_tasks
RECURSIVE create_waitlist_tasks(_, _, _, _)
create_waitlist_tasks(entry_id, ts, nt, i) ==
    IF i > Len(Messengers) THEN [ts |-> ts, nt |-> nt]
    ELSE create_waitlist_tasks(entry_id,
                               ts \cup {TaskRow(nt, "waitlist", entry_id, Messengers[i], NoTime)},
                               nt + 1, i + 1)

\* --------------------------------------- BookingService.notify_waitlist_users
\* entries are visited in list_waitlist order (position ascending)
RECURSIVE NotifyLoop(_, _, _)
NotifyLoop(todo, ts, nt) ==
    IF todo = {} THEN {[ts |-> ts, nt |-> nt]}
    ELSE UNION { LET r == create_waitlist_tasks(w.id, ts, nt, 1)
                 IN NotifyLoop(todo \ {w}, r.ts, r.nt)
                 : w \in {x \in todo : \A y \in todo : x.position <= y.position} }

notify_waitlist_users(e, wl, ts, nt) == NotifyLoop(EntriesIn(wl, e), ts, nt)

\* ------------------------------ BookingService.delete_booking_with_promotion
delete_booking_with_promotion(id, readFails) ==
    /\ UNCHANGED <<capacity, mailings, nextMailingId, txn, setting, nextWaitId, procvars>>
    /\ IF ~ \E b \in bookings : b.id = id
       THEN /\ last' = Result("delete", "not_found", 0)
            /\ UNCHANGED <<bookings, waitlist, tasks, nextBookingId, nextTaskId>>
       ELSE LET b == CHOOSE x \in bookings : x.id = id
                e == b.event_id
                bk == bookings \ {b}
            IN IF AutoPromote(setting, readFails)
               THEN \E st \in promote_from_waitlist(e, bk, waitlist, nextBookingId) :
                       /\ st.nb <= MaxBookings + 1
                       /\ bookings' = st.bk
                       /\ waitlist' = st.wl
                       /\ nextBookingId' = st.nb
                       /\ last' = [Result("delete", "auto", 0) EXCEPT !.promoted = st.promoted]
                       /\ UNCHANGED <<tasks, nextTaskId>>
               ELSE \E st \in notify_waitlist_users(e, waitlist, tasks, nextTaskId) :
                       /\ st.nt <= MaxTasks + 1
                       /\ bookings' = bk
                       /\ tasks' = st.ts
                       /\ nextTaskId' = st.nt
                       /\ last' = Result("delete", "notify", 0)
                       /\ UNCHANGED <<waitlist, nextBookingId>>

DeleteBooking ==
    \E id \in 1..MaxBookings, readFails \in BOOLEAN :
        delete_booking_with_promotion(id, readFails)

\* complete_waitlist_tasks that retires the first channel's task only
complete_waitlist_tasks_first_channel(ts, entry_id) ==
    {IF t.type = "waitlist" /\ t.object_id = entry_id /\ t.messenger = Messengers[1]
     THEN [t EXCEPT !.status = "completed"] ELSE t : t \in ts}

\* ------------------------------------------ TaskService.complete_waitlist_tasks
complete_waitlist_tasks(ts, entry_id) ==
    {IF t.type = "waitlist" /\ t.object_id = entry_id
     THEN [t EXCEPT !.status = "completed"] ELSE t : t \in ts}

\* the delete without the compacting UPDATE
Compact_none(wl, e, pos) == wl

\* UPDATE waitlist SET position = position - 1 WHERE event_id = ? AND position > ?
Compact(wl, e, pos) ==
    {IF w.event_id = e /\ w.position > pos
     THEN [w EXCEPT !.position = w.position - 1] ELSE w : w \in wl}

\* confirm_waitlist with the seat test written as  >  instead of  >=
confirm_waitlist_gt(entry_id, u) ==
    /\ UNCHANGED <<capacity, mailings, nextMailingId, txn, setting, nextWaitId,
                   nextTaskId, procvars>>
    /\ IF ~ \E w \in waitlist : w.id = entry_id
       THEN /\ last' = Result("confirm", "not_found", 0)
            /\ UNCHANGED <<bookings, waitlist, tasks, nextBookingId>>
       ELSE LET wl == CHOOSE w \in waitlist : w.id = entry_id
                e == wl.event_id
            IN IF u \notin Users \/ u # wl.user_id
               THEN /\ last' = Result("confirm", "not_authorized", 0)
                    /\ UNCHANGED <<bookings, waitlist, tasks, nextBookingId>>
               ELSE IF Occupied(e) > capacity[e]
               THEN /\ last' = Result("confirm", "no_seats", 0)
                    /\ UNCHANGED <<bookings, waitlist, tasks, nextBookingId>>
               ELSE /\ nextBookingId <= MaxBookings
                    /\ waitlist' = Compact(waitlist \ {wl}, e, wl.position)
                    /\ bookings' = bookings \cup
                           {BookingRow(nextBookingId, wl.user_id, e, PromotedGroupSize)}
                    /\ nextBookingId' = nextBookingId + 1
                    /\ tasks' = complete_waitlist_tasks(tasks, entry_id)
                    /\ last' = Result("confirm", "ok", nextBookingId)

\* confirm_waitlist that tests the free seats before the holder
confirm_waitlist_seats_first(entry_id, u) ==
    /\ UNCHANGED <<capacity, mailings, nextMailingId, txn, setting, nextWaitId,
                   nextTaskId, procvars>>
    /\ IF ~ \E w \in waitlist : w.id = entry_id
       THEN /\ last' = Result("confirm", "not_found", 0)
            /\ UNCHANGED <<bookings, waitlist, tasks, nextBookingId>>
       ELSE LET wl == CHOOSE w \in waitlist : w.id = entry_id
                e == wl.event_id
            IN IF Occupied(e) >= capacity[e]
               THEN /\ last' = Result("confirm", "no_seats", 0)
                    /\ UNCHANGED <<bookings, waitlist, tasks, nextBookingId>>
               ELSE IF u \notin Users \/ u # wl.user_id
               THEN /\ last' = Result("confirm", "not_authorized", 0)
                    /\ UNCHANGED <<bookings, waitlist, tasks, nextBookingId>>
               ELSE /\ nextBookingId <= MaxBookings
                    /\ waitlist' = Compact(waitlist \ {wl}, e, wl.position)
                    /\ bookings' = bookings \cup
                           {BookingRow(nextBookingId, wl.user_id, e, PromotedGroupSize)}
                    /\ nextBookingId' = nextBookingId + 1
                    /\ tasks' = complete_waitlist_tasks(tasks, entry_id)
                    /\ last' = Result("confirm", "ok", nextBookingId)

\* confirm_waitlist that serves the head of the waitlist only
confirm_waitlist_head_only(entry_id, u) ==
    /\ UNCHANGED <<capacity, mailings, nextMailingId, txn, setting, nextWaitId,
                   nextTaskId, procvars>>
    /\ IF ~ \E w \in waitlist : w.id = entry_id
       THEN /\ last' = Result("confirm", "not_found", 0)
            /\ UNCHANGED <<bookings, waitlist, tasks, nextBookingId>>
       ELSE LET wl == CHOOSE w \in waitlist : w.id = entry_id
                e == wl.event_id
            IN IF u \notin Users \/ u # wl.user_id
               THEN /\ last' = Result("confirm", "not_authorized", 0)
                    /\ UNCHANGED <<bookings, waitlist, tasks, nextBookingId>>
               ELSE IF Occupied(e) >= capacity[e] \/ wl \notin Heads(waitlist, e)
               THEN /\ last' = Result("confirm", "no_seats", 0)
                    /\ UNCHANGED <<bookings, waitlist, tasks, nextBookingId>>
               ELSE /\ nextBookingId <= MaxBookings
                    /\ waitlist' = Compact(waitlist \ {wl}, e, wl.position)
                    /\ bookings' = bookings \cup
                           {BookingRow(nextBookingId, wl.user_id, e, PromotedGroupSize)}
                    /\ nextBookingId' = nextBookingId + 1
                    /\ tasks' = complete_waitlist_tasks(tasks, entry_id)
                    /\ last' = Result("confirm", "ok", nextBookingId)

\* ----------------------------------------------- BookingService.confirm_waitlist
confirm_waitlist(entry_id, u) ==
    /\ UNCHANGED <<capacity, mailings, nextMailingId, txn, setting, nextWaitId, nextTaskId, procvars>>
    /\ IF ~ \E w \in waitlist : w.id = entry_id
       THEN /\ last' = Result("confirm", "not_found", 0)
            /\ UNCHANGED <<bookings, waitlist, tasks, nextBookingId>>
       ELSE LET wl == CHOOSE w \in waitlist : w.id = entry_id
                e == wl.event_id
            IN IF u \notin Users \/ u # wl.user_id
               THEN /\ last' = Result("confirm", "not_authorized", 0)
                    /\ UNCHANGED <<bookings, waitlist, tasks, nextBookingId>>
               ELSE IF Occupied(e) >= capacity[e]
               THEN /\ last' = Result("confirm", "no_seats", 0)
                    /\ UNCHANGED <<bookings, waitlist, tasks, nextBookingId>>
               ELSE /\ nextBookingId <= MaxBookings
                    /\ waitlist' = Compact(waitlist \ {wl}, e, wl.position)
                    /\ bookings' = bookings \cup
                           {BookingRow(nextBookingId, wl.user_id, e, PromotedGroupSize)}
                    /\ nextBookingId' = nextBookingId + 1
                    /\ tasks' = complete_waitlist_tasks(tasks, entry_id)
                    /\ last' = Result("confirm", "ok", nextBookingId)

ConfirmWaitlist ==
    \E id \in 1..MaxWaitlist, u \in Users \cup {UnknownUser} : confirm_waitlist(id, u)

\* the clamp without its upper bound
Clamp_low(new_position, max_pos) ==
    IF new_position < 1 THEN 1 ELSE new_position

\* ------------------------------------------ BookingService.update_waitlist_entry
Clamp(new_position, max_pos) ==
    LET lo == IF new_position < 1 THEN 1 ELSE new_position
    IN IF lo > max_pos THEN max_pos ELSE lo

Reposition(wl, entry, np) ==
    LET e == entry.event_id
        cur_pos == entry.position
        shifted ==
            IF np < cur_pos
            THEN {IF w.event_id = e /\ w.position >= np /\ w.position < cur_pos
                  THEN [w EXCEPT !.position = w.position + 1] ELSE w : w \in wl}
            ELSE IF np > cur_pos
            THEN {IF w.event_id = e /\ w.position <= np /\ w.position > cur_pos
                  THEN [w EXCEPT !.position = w.position - 1] ELSE w : w \in wl}
            ELSE wl
    IN {IF w.id = entry.id THEN [w EXCEPT !.position = np] ELSE w : w \in shifted}

update_waitlist_entry(entry_id, new_position) ==
    /\ UNCHANGED <<capacity, mailings, nextMailingId, txn, bookings, tasks, setting,
                   nextBookingId, nextWaitId, nextTaskId, procvars>>
    /\ IF ~ \E w \in waitlist : w.id = entry_id
       THEN /\ last' = Result("reposition", "not_found", 0)
            /\ UNCHANGED waitlist
       ELSE LET current == CHOOSE w \in waitlist : w.id = entry_id
                max_pos == Cardinality(EntriesIn(waitlist, current.event_id))
                np == Clamp(new_position, max_pos)
            IN /\ waitlist' = Reposition(waitlist, current, np)
               /\ last' = Result("reposition", "ok", 0)

UpdateWaitlistEntry ==
    \E id \in 1..MaxWaitlist, np \in 0..(MaxWaitlist + 1) : update_waitlist_entry(id, np)

\* ------------------------------------------ BookingService.delete_waitlist_entry
delete_waitlist_entry(entry_id) ==
    /\ UNCHANGED <<capacity, mailings, nextMailingId, txn, bookings, tasks, setting,
                   nextBookingId, nextWaitId, nextTaskId, procvars>>
    /\ IF ~ \E w \in waitlist : w.id = entry_id
       THEN /\ last' = Result("remove", "not_found", 0)
            /\ UNCHANGED waitlist
       ELSE LET current == CHOOSE w \in waitlist : w.id = entry_id
            IN /\ waitlist' = Compact(waitlist \ {current}, current.event_id, current.position)
               /\ last' = Result("remove", "ok", 0)

DeleteWaitlistEntry ==
    \E id \in 1..MaxWaitlist : delete_waitlist_entry(id)

\* complete_task that retires every channel's task of the same subject
complete_task_subject(task_id) ==
    /\ UNCHANGED <<capacity, mailings, nextMailingId, txn, bookings, waitlist, setting,
                   nextBookingId, nextWaitId, nextTaskId, procvars>>
    /\ IF ~ \E t \in tasks : t.id = task_id
       THEN /\ last' = Result("complete", "not_found", 0)
            /\ UNCHANGED tasks
       ELSE LET row == CHOOSE t \in tasks : t.id = task_id
            IN /\ tasks' = {IF t.type = row.type /\ t.object_id = row.object_id
                            THEN [t EXCEPT !.status = "completed"] ELSE t : t \in tasks}
               /\ last' = Result("complete", "ok", 0)

\* ------------------------------------------------------ TaskService.complete_task
complete_task(task_id) ==
    /\ UNCHANGED <<capacity, mailings, nextMailingId, txn, bookings, waitlist, setting,
                   nextBookingId, nextWaitId, nextTaskId, procvars>>
    /\ IF ~ \E t \in tasks : t.id = task_id
       THEN /\ last' = Result("complete", "not_found", 0)
            /\ UNCHANGED tasks
       ELSE /\ tasks' = {IF t.id = task_id THEN [t EXCEPT !.status = "completed"] ELSE t
                         : t \in tasks}
            /\ last' = Result("complete", "ok", 0)

CompleteTask ==
    \E id \in 1..(MaxTasks + 1) : complete_task(id)

\* ------------------------------- SettingsService.upsert_setting / delete_setting
SettingInputs == {<<"True", "bool">>, <<"False", "bool">>}

upsert_setting(value, type_str) ==
    /\ setting' = [value |-> Serialize(value, type_str), type |-> type_str]
    /\ last' = Result("upsert_setting", "ok", 0)
    /\ UNCHANGED <<capacity, mailings, nextMailingId, txn, bookings, waitlist, tasks,
                   nextBookingId, nextWaitId, nextTaskId, procvars>>

UpsertSetting == \E in \in SettingInputs : upsert_setting(in[1], in[2])

delete_setting ==
    /\ setting' = NoSetting
    /\ last' = Result("delete_setting", "ok", 0)
    /\ UNCHANGED <<capacity, mailings, nextMailingId, txn, bookings, waitlist, tasks,
                   nextBookingId, nextWaitId, nextTaskId, procvars>>

\* ------------------------------------------------------------------- Spec
Next ==
    \/ CreateBooking
    \/ UpdateBooking
    \/ DeleteBooking
    \/ ConfirmWaitlist
    \/ UpdateWaitlistEntry
    \/ DeleteWaitlistEntry
    \/ UpsertSetting
    \/ delete_setting

Spec == Init /\ [][Next]_vars

\* admissions only: a sequence of create_booking calls
SpecAdmit == Init /\ [][CreateBooking]_vars

\* the waitlist operations: append (by an overflowing create), reposition, remove
NextWaitlist ==
    \/ CreateBooking
    \/ UpdateWaitlistEntry
    \/ DeleteWaitlistEntry

SpecWaitlist == Init /\ [][NextWaitlist]_vars

\* --------------------------------------------------------------- SpecConc
\* create_booking statement by statement.  Every connection is opened by
\* get_connection() with sqlite3's default deferred isolation: a SELECT runs
\* outside any transaction and sees the committed rows, the first INSERT opens
\* the transaction and takes the write lock, conn.commit() publishes the row.
unchangedStore == UNCHANGED <<capacity, mailings, nextMailingId, txn, bookings, waitlist, tasks, setting, nextTaskId>>

\* lines 39-61: resolve the user, read events.max_participants
c_begin(p, e, u, n) ==
    /\ pc[p] = "idle"
    /\ unchangedStore
    /\ UNCHANGED <<nextBookingId, nextWaitId, dbLock>>
    /\ IF u \notin Users
       THEN /\ last' = Result("create", "no_user", 0)
            /\ UNCHANGED <<pc, loc>>
       ELSE IF e \notin Events
       THEN /\ last' = Result("create", "no_event", 0)
            /\ UNCHANGED <<pc, loc>>
       ELSE /\ pc' = [pc EXCEPT ![p] = "read_occupied"]
            /\ loc' = [loc EXCEPT ![p] = [NoLocals EXCEPT !.e = e, !.u = u, !.n = n]]
            /\ UNCHANGED last

\* lines 62-68: SELECT COALESCE(SUM(group_size), 0), then the capacity test
c_read_occupied(p) ==
    /\ pc[p] = "read_occupied"
    /\ unchangedStore
    /\ UNCHANGED <<nextBookingId, nextWaitId, dbLock, last>>
    /\ loc' = [loc EXCEPT ![p].booked = Occupied(loc[p].e)]
    /\ pc' = [pc EXCEPT ![p] =
                IF Occupied(loc[p].e) + loc[p].n <= capacity[loc[p].e]
                THEN "insert_booking" ELSE "read_position"]

\* lines 90-97: INSERT INTO bookings (opens the transaction)
c_insert_booking(p) ==
    /\ pc[p] = "insert_booking"
    /\ dbLock = 0
    /\ nextBookingId <= MaxBookings
    /\ unchangedStore
    /\ UNCHANGED <<nextWaitId, last>>
    /\ dbLock' = p
    /\ loc' = [loc EXCEPT ![p].row = nextBookingId]
    /\ nextBookingId' = nextBookingId + 1
    /\ pc' = [pc EXCEPT ![p] = "commit_booking"]

\* line 98: conn.commit()
c_commit_booking(p) ==
    /\ pc[p] = "commit_booking"
    /\ bookings' = bookings \cup
           {BookingRow(loc[p].row, loc[p].u, loc[p].e, loc[p].n)}
    /\ dbLock' = 0
    /\ last' = Result("create", "booked", loc[p].row)
    /\ pc' = [pc EXCEPT ![p] = "idle"]
    /\ loc' = [loc EXCEPT ![p] = NoLocals]
    /\ UNCHANGED <<capacity, mailings, nextMailingId, txn, waitlist, tasks, setting, nextBookingId, nextWaitId, nextTaskId>>

\* lines 127-131: SELECT COALESCE(MAX(position), 0) + 1
c_read_position(p) ==
    /\ pc[p] = "read_position"
    /\ unchangedStore
    /\ UNCHANGED <<nextBookingId, nextWaitId, dbLock, last>>
    /\ loc' = [loc EXCEPT ![p].position = NextPosition(waitlist, loc[p].e)]
    /\ pc' = [pc EXCEPT ![p] = "insert_waitlist"]

\* lines 132-135: INSERT INTO waitlist (opens the transaction)
c_insert_waitlist(p) ==
    /\ pc[p] = "insert_waitlist"
    /\ dbLock = 0
    /\ nextWaitId <= MaxWaitlist
    /\ unchangedStore
    /\ UNCHANGED <<nextBookingId, last>>
    /\ dbLock' = p
    /\ loc' = [loc EXCEPT ![p].row = nextWaitId]
    /\ nextWaitId' = nextWaitId + 1
    /\ pc' = [pc EXCEPT ![p] = "commit_waitlist"]

\* lines 136-140: conn.commit(), then the "Event is full" error
c_commit_waitlist(p) ==
    /\ pc[p] = "commit_waitlist"
    /\ waitlist' = waitlist \cup
           {WaitRow(loc[p].row, loc[p].e, loc[p].u, loc[p].position)}
    /\ dbLock' = 0
    /\ last' = Result("create", "waitlisted", loc[p].row)
    /\ pc' = [pc EXCEPT ![p] = "idle"]
    /\ loc' = [loc EXCEPT ![p] = NoLocals]
    /\ UNCHANGED <<capacity, mailings, nextMailingId, txn, bookings, tasks, setting, nextBookingId, nextWaitId, nextTaskId>>

\* an INSERT that finds the write lock taken gives up after sqlite3's busy
\* timeout: the call ends with "database is locked" and writes nothing
c_busy(p) ==
    /\ pc[p] \in {"insert_booking", "insert_waitlist"}
    /\ dbLock \notin {0, p}
    /\ unchangedStore
    /\ UNCHANGED <<nextBookingId, nextWaitId, dbLock>>
    /\ last' = Result("create", "locked", 0)
    /\ pc' = [pc EXCEPT ![p] = "idle"]
    /\ loc' = [loc EXCEPT ![p] = NoLocals]

BeginCreate ==
    \E p \in Procs, e \in Events \cup {UnknownEvent}, u \in Users \cup {UnknownUser},
       n \in GroupSizes : c_begin(p, e, u, n)
ReadOccupied == \E p \in Procs : c_read_occupied(p)
InsertBooking == \E p \in Procs : c_insert_booking(p)
CommitBooking == \E p \in Procs : c_commit_booking(p)
ReadPosition == \E p \in Procs : c_read_position(p)
InsertWaitlist == \E p \in Procs : c_insert_waitlist(p)
CommitWaitlist == \E p \in Procs : c_commit_waitlist(p)
Busy == \E p \in Procs : c_busy(p)

NextConc ==
    \/ BeginCreate
    \/ ReadOccupied
    \/ InsertBooking
    \/ CommitBooking
    \/ ReadPosition
    \/ InsertWaitlist
    \/ CommitWaitlist
    \/ Busy

SpecConc == Init /\ [][NextConc]_vars

\* ---------------------------------------------------------------- time
\* A datetime value is a wall-clock reading with or without a UTC offset
\* (pydantic accepts both for scheduled_at, datetime.fromisoformat for until).
MaxTime == 1
TzSuffixes == {"", "+01:00"}
DateTimes == [wall : 0..MaxTime, tz : TzSuffixes]
NoDate == [wall |-> -1, tz |-> ""]

\* datetime.isoformat(): the wall-clock digits followed by the offset suffix.
\* The string is represented by its rank in the lexicographic order of all
\* such strings, which is the order SQLite's  scheduled_at <= ?  compares TEXT
\* values in ("0" < "0+01:00" < "1" < "1+01:00").
IsoFormat(dt) == dt.wall * Cardinality(TzSuffixes) + (IF dt.tz = "" THEN 0 ELSE 1)

\* datetime.fromisoformat(), the inverse of isoformat()
FromIsoFormat(code) ==
    [wall |-> code \div Cardinality(TzSuffixes),
     tz |-> IF code % Cardinality(TzSuffixes) = 0 THEN "" ELSE "+01:00"]

\* the point in time a datetime denotes; a naive value is a UTC reading
\* (the service takes the current time from datetime.utcnow())
Instant(dt) == dt.wall - (IF dt.tz = "" THEN 0 ELSE 1)

\* ------------------------------------------ TaskService.create_tasks_for_mailing
RECURSIVE create_tasks_for_mailing(_, _, _, _, _, _)
create_tasks_for_mailing(mailing_id, messengers, scheduled_at, ts, nt, i) ==
    IF i > Len(messengers) THEN [ts |-> ts, nt |-> nt]
    ELSE create_tasks_for_mailing(mailing_id, messengers, scheduled_at,
             ts \cup {TaskRow(nt, "mailing", mailing_id, messengers[i], scheduled_at)},
             nt + 1, i + 1)

\* DELETE FROM tasks WHERE type = 'mailing' AND object_id = ?
delete_mailing_tasks(ts, mailing_id) ==
    {t \in ts : ~(t.type = "mailing" /\ t.object_id = mailing_id)}

\* the messenger lists a request carries after MailingCreate.validate_messengers
\* (no duplicates, supported codes only); <<>> stands for None
MaxMailings == 1
MessengerLists == {<<>>, <<"telegram">>, <<"vk", "telegram">>}
MailingRow(id, messengers, scheduled_at) ==
    [id |-> id, messengers |-> messengers, scheduled_at |-> scheduled_at]

\* ------------------------------------------------- MailingService.create_mailing
create_mailing(is_admin, messengers, scheduled_at) ==
    /\ UNCHANGED <<capacity, bookings, waitlist, setting,
                   nextBookingId, nextWaitId, procvars, txn>>
    /\ IF ~ is_admin
       THEN /\ last' = Result("create_mailing", "forbidden", 0)
            /\ UNCHANGED <<mailings, nextMailingId, tasks, nextTaskId>>
       ELSE LET scheduled_at_iso == IF scheduled_at = NoDate THEN NoTime
                                    ELSE IsoFormat(scheduled_at)
                r == create_tasks_for_mailing(nextMailingId, messengers,
                                              scheduled_at_iso, tasks, nextTaskId, 1)
            IN /\ nextMailingId <= MaxMailings
               /\ r.nt <= MaxTasks + 1
               /\ mailings' = mailings \cup
                      {MailingRow(nextMailingId, messengers, scheduled_at_iso)}
               /\ nextMailingId' = nextMailingId + 1
               /\ tasks' = r.ts
               /\ nextTaskId' = r.nt
               /\ last' = Result("create_mailing", "ok", nextMailingId)

CreateMailing ==
    \E is_admin \in BOOLEAN, ms \in MessengerLists, at \in DateTimes \cup {NoDate} :
        create_mailing(is_admin, ms, at)

\* ------------------------------------------------- MailingService.update_mailing
update_mailing(mailing_id, is_admin, messengers, scheduled_at) ==
    /\ UNCHANGED <<capacity, bookings, waitlist, setting,
                   nextBookingId, nextWaitId, nextMailingId, procvars, txn>>
    /\ IF ~ is_admin
       THEN /\ last' = Result("update_mailing", "forbidden", 0)
            /\ UNCHANGED <<mailings, tasks, nextTaskId>>
       ELSE IF ~ \E m \in mailings : m.id = mailing_id
       THEN /\ last' = Result("update_mailing", "not_found", 0)
            /\ UNCHANGED <<mailings, tasks, nextTaskId>>
       ELSE LET row == CHOOSE m \in mailings : m.id = mailing_id
                schedule_for_tasks == IF scheduled_at # NoDate
                                      THEN IsoFormat(scheduled_at)
                                      ELSE row.scheduled_at
                cleared == IF messengers # <<>> \/ scheduled_at # NoDate
                           THEN delete_mailing_tasks(tasks, mailing_id)
                           ELSE tasks
                r == create_tasks_for_mailing(mailing_id, messengers,
                                              schedule_for_tasks, cleared, nextTaskId, 1)
            IN /\ r.nt <= MaxTasks + 1
               /\ mailings' = (mailings \ {row}) \cup
                      {MailingRow(mailing_id,
                                  IF messengers # <<>> THEN messengers ELSE row.messengers,
                                  schedule_for_tasks)}
               /\ tasks' = r.ts
               /\ nextTaskId' = r.nt
               /\ last' = Result("update_mailing", "ok", 0)

UpdateMailing ==
    \E id \in 1..MaxMailings, is_admin \in BOOLEAN, ms \in MessengerLists,
       at \in DateTimes \cup {NoDate} : update_mailing(id, is_admin, ms, at)

\* ------------------------------------------------- MailingService.delete_mailing
delete_mailing(mailing_id, is_admin) ==
    /\ UNCHANGED <<capacity, bookings, waitlist, setting,
                   nextBookingId, nextWaitId, nextMailingId, nextTaskId, procvars, txn>>
    /\ IF ~ is_admin
       THEN /\ last' = Result("delete_mailing", "forbidden", 0)
            /\ UNCHANGED <<mailings, tasks>>
       ELSE IF ~ \E m \in mailings : m.id = mailing_id
       THEN /\ last' = Result("delete_mailing", "not_found", 0)
            /\ UNCHANGED <<mailings, tasks>>
       ELSE /\ mailings' = {m \in mailings : m.id # mailing_id}
            /\ tasks' = delete_mailing_tasks(tasks, mailing_id)
            /\ last' = Result("delete_mailing", "ok", 0)

DeleteMailing ==
    \E id \in 1..MaxMailings, is_admin \in BOOLEAN : delete_mailing(id, is_admin)

\* the poll query without the status filter
get_pending_tasks_any_status(ts, messenger, now) ==
    {t \in ts : /\ t.messenger = messenger
                /\ (t.scheduled_at = NoTime \/ t.scheduled_at <= IsoFormat(now))}

\* ------------------------------------------------ TaskService.get_pending_tasks
\* SELECT ... WHERE messenger = ? AND status = 'pending'
\*              AND (scheduled_at IS NULL OR scheduled_at <= ?)
get_pending_tasks(ts, messenger, now) ==
    {t \in ts : /\ t.messenger = messenger
                /\ t.status = "pending"
                /\ (t.scheduled_at = NoTime \/ t.scheduled_at <= IsoFormat(now))}

\* the ids of a set of rows in ascending order
RECURSIVE IdsAscending(_)
IdsAscending(rows) ==
    IF rows = {} THEN <<>>
    ELSE LET m == CHOOSE r \in rows : \A x \in rows : r.id >= x.id
         IN Append(IdsAscending(rows \ {m}), m.id)

\* GET /tasks?messenger=..&until=..: the call changes no table; last records
\* the messenger, the cut-off string and the ids of the returned tasks
poll_tasks(messenger, now) ==
    /\ last' = [op |-> "poll", res |-> messenger, id |-> IsoFormat(now),
                promoted |-> IdsAscending(get_pending_tasks(tasks, messenger, now))]
    /\ UNCHANGED <<capacity, mailings, nextMailingId, txn, bookings, waitlist, tasks,
                   setting, nextBookingId, nextWaitId, nextTaskId, procvars>>

PollTasks ==
    \E i \in 1..Len(Messengers), now \in DateTimes : poll_tasks(Messengers[i], now)

\* ------------------------------------------------------------- SpecOutbox
\* the task outbox fed by deletes under the notify policy and drained by
\* completions and confirms (a poll changes no table: what it would return
\* in a state is get_pending_tasks of that state)
NextOutbox ==
    \/ CreateBooking
    \/ DeleteBooking
    \/ ConfirmWaitlist
    \/ UpsertSetting
    \/ CompleteTask

SpecOutbox == Init /\ [][NextOutbox]_vars

\* ------------------------------------------------------------ SpecMailing
\* the task outbox fed by mailings (with their scheduled times) and drained
\* by polls and completions
NextMailing ==
    \/ CreateMailing
    \/ UpdateMailing
    \/ DeleteMailing
    \/ PollTasks
    \/ CompleteTask

SpecMailing == Init /\ [][NextMailing]_vars

\* ------------------------------------------------------------ SpecEnforce
\* every call that admits or releases seats, run to completion one after the
\* other; update_booking is left out
NextEnforce ==
    \/ CreateBooking
    \/ DeleteBooking
    \/ ConfirmWaitlist
    \/ UpdateWaitlistEntry
    \/ DeleteWaitlistEntry
    \/ UpsertSetting
    \/ delete_setting

SpecEnforce == Init /\ [][NextEnforce]_vars

\* --------------------------------------- confirm_waitlist, statement by statement
\* no call is in flight
Quiet == dbLock = 0 /\ \A p \in Procs : pc[p] = "idle"

\* lines 506-524: SELECT the entry, SELECT the caller, compare the holder
cw_begin(p, entry_id, u) ==
    /\ pc[p] = "idle"
    /\ unchangedStore
    /\ UNCHANGED <<nextBookingId, nextWaitId, dbLock>>
    /\ IF ~ \E w \in waitlist : w.id = entry_id
       THEN /\ last' = Result("confirm", "not_found", 0)
            /\ UNCHANGED <<pc, loc>>
       ELSE LET wl == CHOOSE w \in waitlist : w.id = entry_id
            IN IF u \notin Users \/ u # wl.user_id
               THEN /\ last' = Result("confirm", "not_authorized", 0)
                    /\ UNCHANGED <<pc, loc>>
               ELSE /\ pc' = [pc EXCEPT ![p] = "cw_read_seats"]
                    /\ loc' = [loc EXCEPT ![p] =
                                  [NoLocals EXCEPT !.e = wl.event_id, !.u = wl.user_id,
                                                   !.position = wl.position,
                                                   !.row = entry_id]]
                    /\ UNCHANGED last

\* lines 525-539: SELECT max_participants, SELECT SUM(group_size), the seat test
cw_read_seats(p) ==
    /\ pc[p] = "cw_read_seats"
    /\ unchangedStore
    /\ UNCHANGED <<nextBookingId, nextWaitId, dbLock>>
    /\ IF Occupied(loc[p].e) >= capacity[loc[p].e]
       THEN /\ last' = Result("confirm", "no_seats", 0)
            /\ pc' = [pc EXCEPT ![p] = "idle"]
            /\ loc' = [loc EXCEPT ![p] = NoLocals]
       ELSE /\ pc' = [pc EXCEPT ![p] = "cw_delete"]
            /\ loc' = [loc EXCEPT ![p].booked = Occupied(loc[p].e)]
            /\ UNCHANGED last

\* the DELETE of confirm_waitlist run in autocommit mode
cw_delete_autocommit(p) ==
    /\ pc[p] = "cw_delete"
    /\ dbLock = 0
    /\ dbLock' = p
    /\ waitlist' = {w \in waitlist : w.id # loc[p].row}
    /\ txn' = [wl |-> {w \in waitlist : w.id # loc[p].row}, bk |-> bookings]
    /\ pc' = [pc EXCEPT ![p] = "cw_compact"]
    /\ UNCHANGED <<capacity, mailings, nextMailingId, bookings, tasks, setting,
                   nextBookingId, nextWaitId, nextTaskId, last, loc>>

\* line 541: DELETE FROM waitlist WHERE id = ?  (opens the transaction and
\* takes the write lock; the change stays private until the commit)
cw_delete(p) ==
    /\ pc[p] = "cw_delete"
    /\ dbLock = 0
    /\ dbLock' = p
    /\ txn' = [wl |-> {w \in waitlist : w.id # loc[p].row}, bk |-> bookings]
    /\ pc' = [pc EXCEPT ![p] = "cw_compact"]
    /\ UNCHANGED <<capacity, mailings, nextMailingId, bookings, waitlist, tasks, setting,
                   nextBookingId, nextWaitId, nextTaskId, last, loc>>

\* lines 543-546: UPDATE waitlist SET position = position - 1 ...
cw_compact(p) ==
    /\ pc[p] = "cw_compact"
    /\ txn' = [txn EXCEPT !.wl = Compact(txn.wl, loc[p].e, loc[p].position)]
    /\ pc' = [pc EXCEPT ![p] = "cw_insert"]
    /\ UNCHANGED <<capacity, mailings, nextMailingId, bookings, waitlist, tasks, setting,
                   nextBookingId, nextWaitId, nextTaskId, last, loc, dbLock>>

\* lines 557-562: INSERT INTO bookings ... group_size 1; booking_id = lastrowid
cw_insert(p) ==
    /\ pc[p] = "cw_insert"
    /\ nextBookingId <= MaxBookings
    /\ txn' = [txn EXCEPT !.bk = txn.bk \cup
                  {BookingRow(nextBookingId, loc[p].u, loc[p].e, PromotedGroupSize)}]
    /\ loc' = [loc EXCEPT ![p].n = nextBookingId]
    /\ nextBookingId' = nextBookingId + 1
    /\ pc' = [pc EXCEPT ![p] = "cw_commit"]
    /\ UNCHANGED <<capacity, mailings, nextMailingId, bookings, waitlist, tasks, setting,
                   nextWaitId, nextTaskId, last, dbLock>>

\* line 563: conn.commit()
cw_commit(p) ==
    /\ pc[p] = "cw_commit"
    /\ waitlist' = txn.wl
    /\ bookings' = txn.bk
    /\ txn' = NoTxn
    /\ dbLock' = 0
    /\ pc' = [pc EXCEPT ![p] = "cw_complete_tasks"]
    /\ UNCHANGED <<capacity, mailings, nextMailingId, tasks, setting,
                   nextBookingId, nextWaitId, nextTaskId, last, loc>>

\* lines 564-569: complete_waitlist_tasks on a connection of its own; its
\* failure (the write lock is taken by another connection) is swallowed
cw_complete_tasks(p) ==
    /\ pc[p] = "cw_complete_tasks"
    /\ tasks' = IF dbLock = 0 THEN complete_waitlist_tasks(tasks, loc[p].row) ELSE tasks
    /\ last' = Result("confirm", "ok", loc[p].n)
    /\ pc' = [pc EXCEPT ![p] = "idle"]
    /\ loc' = [loc EXCEPT ![p] = NoLocals]
    /\ UNCHANGED <<capacity, mailings, nextMailingId, txn, bookings, waitlist, setting,
                   nextBookingId, nextWaitId, nextTaskId, dbLock>>

\* the DELETE finds the write lock taken and gives up after the busy timeout
cw_busy(p) ==
    /\ pc[p] = "cw_delete"
    /\ dbLock \notin {0, p}
    /\ unchangedStore
    /\ UNCHANGED <<nextBookingId, nextWaitId, dbLock>>
    /\ last' = Result("confirm", "locked", 0)
    /\ pc' = [pc EXCEPT ![p] = "idle"]
    /\ loc' = [loc EXCEPT ![p] = NoLocals]

BeginConfirm ==
    \E p \in Procs, id \in 1..MaxWaitlist, u \in Users \cup {UnknownUser} :
        cw_begin(p, id, u)
ConfirmReadSeats == \E p \in Procs : cw_read_seats(p)
ConfirmDelete == \E p \in Procs : cw_delete(p)
ConfirmCompact == \E p \in Procs : cw_compact(p)
ConfirmInsert == \E p \in Procs : cw_insert(p)
ConfirmCommit == \E p \in Procs : cw_commit(p)
ConfirmCompleteTasks == \E p \in Procs : cw_complete_tasks(p)
ConfirmBusy == \E p \in Procs : cw_busy(p)

\* calls that run to completion while no other call is in flight
QuietCreate == Quiet /\ CreateBooking
QuietDelete == Quiet /\ DeleteBooking
QuietSetting == Quiet /\ UpsertSetting

\* ------------------------------------------------------- SpecConfirmRace
\* confirm_waitlist calls of several connections interleaved statement by
\* statement, on stores built by create, delete and the policy setting
NextConfirmRace ==
    \/ QuietCreate
    \/ QuietDelete
    \/ QuietSetting
    \/ BeginConfirm
    \/ ConfirmReadSeats
    \/ ConfirmDelete
    \/ ConfirmCompact
    \/ ConfirmInsert
    \/ ConfirmCommit
    \/ ConfirmCompleteTasks
    \/ ConfirmBusy

SpecConfirmRace == Init /\ [][NextConfirmRace]_vars

\* ------------------------------------ delete_waitlist_entry, statement by statement
\* lines 875-883: SELECT event_id, position FROM waitlist WHERE id = ?
dw_begin(p, entry_id) ==
    /\ pc[p] = "idle"
    /\ unchangedStore
    /\ UNCHANGED <<nextBookingId, nextWaitId, dbLock>>
    /\ IF ~ \E w \in waitlist : w.id = entry_id
       THEN /\ last' = Result("remove", "not_found", 0)
            /\ UNCHANGED <<pc, loc>>
       ELSE LET current == CHOOSE w \in waitlist : w.id = entry_id
            IN /\ pc' = [pc EXCEPT ![p] = "dw_delete"]
               /\ loc' = [loc EXCEPT ![p] =
                             [NoLocals EXCEPT !.e = current.event_id,
                                              !.position = current.position,
                                              !.row = entry_id]]
               /\ UNCHANGED last

\* line 885: DELETE FROM waitlist WHERE id = ?  (opens the transaction)
dw_delete(p) ==
    /\ pc[p] = "dw_delete"
    /\ dbLock = 0
    /\ dbLock' = p
    /\ txn' = [wl |-> {w \in waitlist : w.id # loc[p].row}, bk |-> bookings]
    /\ pc' = [pc EXCEPT ![p] = "dw_compact"]
    /\ UNCHANGED <<capacity, mailings, nextMailingId, bookings, waitlist, tasks, setting,
                   nextBookingId, nextWaitId, nextTaskId, last, loc>>

\* lines 887-890: UPDATE waitlist SET position = position - 1 ...
dw_compact(p) ==
    /\ pc[p] = "dw_compact"
    /\ txn' = [txn EXCEPT !.wl = Compact(txn.wl, loc[p].e, loc[p].position)]
    /\ pc' = [pc EXCEPT ![p] = "dw_commit"]
    /\ UNCHANGED <<capacity, mailings, nextMailingId, bookings, waitlist, tasks, setting,
                   nextBookingId, nextWaitId, nextTaskId, last, loc, dbLock>>

\* line 891: conn.commit()
dw_commit(p) ==
    /\ pc[p] = "dw_commit"
    /\ waitlist' = txn.wl
    /\ txn' = NoTxn
    /\ dbLock' = 0
    /\ last' = Result("remove", "ok", 0)
    /\ pc' = [pc EXCEPT ![p] = "idle"]
    /\ loc' = [loc EXCEPT ![p] = NoLocals]
    /\ UNCHANGED <<capacity, mailings, nextMailingId, bookings, tasks, setting,
                   nextBookingId, nextWaitId, nextTaskId>>

\* ------------------------------------ update_waitlist_entry, statement by statement
\* lines 813-820: SELECT event_id, position FROM waitlist WHERE id = ?
uw_begin(p, entry_id, new_position) ==
    /\ pc[p] = "idle"
    /\ unchangedStore
    /\ UNCHANGED <<nextBookingId, nextWaitId, dbLock>>
    /\ IF ~ \E w \in waitlist : w.id = entry_id
       THEN /\ last' = Result("reposition", "not_found", 0)
            /\ UNCHANGED <<pc, loc>>
       ELSE LET current == CHOOSE w \in waitlist : w.id = entry_id
            IN /\ pc' = [pc EXCEPT ![p] = "uw_count"]
               /\ loc' = [loc EXCEPT ![p] =
                             [NoLocals EXCEPT !.e = current.event_id,
                                              !.position = current.position,
                                              !.n = new_position,
                                              !.row = entry_id]]
               /\ UNCHANGED last

\* lines 821-831: SELECT COUNT(*), then the clamp
uw_count(p) ==
    /\ pc[p] = "uw_count"
    /\ unchangedStore
    /\ UNCHANGED <<nextBookingId, nextWaitId, dbLock, last>>
    /\ loc' = [loc EXCEPT ![p].n =
                  Clamp(loc[p].n, Cardinality(EntriesIn(waitlist, loc[p].e)))]
    /\ pc' = [pc EXCEPT ![p] = "uw_shift"]

\* the two shifting UPDATEs of update_waitlist_entry
ShiftBetween(wl, e, cur_pos, np) ==
    IF np < cur_pos
    THEN {IF w.event_id = e /\ w.position >= np /\ w.position < cur_pos
          THEN [w EXCEPT !.position = w.position + 1] ELSE w : w \in wl}
    ELSE IF np > cur_pos
    THEN {IF w.event_id = e /\ w.position <= np /\ w.position > cur_pos
          THEN [w EXCEPT !.position = w.position - 1] ELSE w : w \in wl}
    ELSE wl

\* UPDATE waitlist SET position = ? WHERE id = ?
SetPosition(wl, id, np) ==
    {IF w.id = id THEN [w EXCEPT !.position = np] ELSE w : w \in wl}

\* lines 832-845: the shifting UPDATE (opens the transaction); no statement
\* runs when the clamped position is the current one
uw_shift(p) ==
    /\ pc[p] = "uw_shift"
    /\ IF loc[p].n = loc[p].position
       THEN UNCHANGED <<dbLock, txn>>
       ELSE /\ dbLock = 0
            /\ dbLock' = p
            /\ txn' = [wl |-> ShiftBetween(waitlist, loc[p].e, loc[p].position, loc[p].n),
                       bk |-> bookings]
    /\ pc' = [pc EXCEPT ![p] = "uw_set"]
    /\ UNCHANGED <<capacity, mailings, nextMailingId, bookings, waitlist, tasks, setting,
                   nextBookingId, nextWaitId, nextTaskId, last, loc>>

\* lines 846-850: UPDATE waitlist SET position = ? WHERE id = ?
uw_set(p) ==
    /\ pc[p] = "uw_set"
    /\ dbLock \in {0, p}
    /\ dbLock' = p
    /\ txn' = [wl |-> SetPosition(IF dbLock = p THEN txn.wl ELSE waitlist,
                                  loc[p].row, loc[p].n),
               bk |-> bookings]
    /\ pc' = [pc EXCEPT ![p] = "uw_commit"]
    /\ UNCHANGED <<capacity, mailings, nextMailingId, bookings, waitlist, tasks, setting,
                   nextBookingId, nextWaitId, nextTaskId, last, loc>>

\* line 851: conn.commit()
uw_commit(p) ==
    /\ pc[p] = "uw_commit"
    /\ waitlist' = txn.wl
    /\ txn' = NoTxn
    /\ dbLock' = 0
    /\ last' = Result("reposition", "ok", 0)
    /\ pc' = [pc EXCEPT ![p] = "idle"]
    /\ loc' = [loc EXCEPT ![p] = NoLocals]
    /\ UNCHANGED <<capacity, mailings, nextMailingId, bookings, tasks, setting,
                   nextBookingId, nextWaitId, nextTaskId>>

\* the call dies between two statements (the process is killed, or a statement
\* raises and  finally: conn.close()  runs without a commit): the open
\* transaction, the booking id it drew included, is rolled back
crash(p) ==
    /\ pc[p] \notin {"idle", "cw_complete_tasks"}
    /\ IF dbLock = p
       THEN /\ txn' = NoTxn
            /\ dbLock' = 0
            /\ nextBookingId' = IF pc[p] = "cw_commit" THEN nextBookingId - 1
                                ELSE nextBookingId
       ELSE UNCHANGED <<txn, dbLock, nextBookingId>>
    /\ last' = Result("crash", "rolled_back", 0)
    /\ pc' = [pc EXCEPT ![p] = "idle"]
    /\ loc' = [loc EXCEPT ![p] = NoLocals]
    /\ UNCHANGED <<capacity, mailings, nextMailingId, bookings, waitlist, tasks, setting,
                   nextWaitId, nextTaskId>>

\* ------------------------------------------------------------- SpecAtomic
\* one waitlist call at a time, run statement by statement; the variable
\* waitlist is the committed table, which is what a list_waitlist on another
\* connection reads and what is left after a crash
OneConfirm ==
    Quiet /\ \E p \in Procs, id \in 1..MaxWaitlist, u \in Users : cw_begin(p, id, u)
OneRemove == Quiet /\ \E p \in Procs, id \in 1..MaxWaitlist : dw_begin(p, id)
OneReposition ==
    Quiet /\ \E p \in Procs, id \in 1..MaxWaitlist, np \in 0..(MaxWaitlist + 1) :
                 uw_begin(p, id, np)
RemoveDelete == \E p \in Procs : dw_delete(p)
RemoveCompact == \E p \in Procs : dw_compact(p)
RemoveCommit == \E p \in Procs : dw_commit(p)
RepositionCount == \E p \in Procs : uw_count(p)
RepositionShift == \E p \in Procs : uw_shift(p)
RepositionSet == \E p \in Procs : uw_set(p)
RepositionCommit == \E p \in Procs : uw_commit(p)
Crash == \E p \in Procs : crash(p)

NextAtomic ==
    \/ QuietCreate
    \/ QuietDelete
    \/ QuietSetting
    \/ OneConfirm
    \/ ConfirmReadSeats
    \/ ConfirmDelete
    \/ ConfirmCompact
    \/ ConfirmInsert
    \/ ConfirmCommit
    \/ ConfirmCompleteTasks
    \/ OneRemove
    \/ RemoveDelete
    \/ RemoveCompact
    \/ RemoveCommit
    \/ OneReposition
    \/ RepositionCount
    \/ RepositionShift
    \/ RepositionSet
    \/ RepositionCommit
    \/ Crash

SpecAtomic == Init /\ [][NextAtomic]_vars

\* -------------------- delete_booking_with_promotion, statement by statement
\* lines 332-338: SELECT event_id FROM bookings WHERE id = ?
db_begin(p, id) ==
    /\ pc[p] = "idle"
    /\ unchangedStore
    /\ UNCHANGED <<nextBookingId, nextWaitId, dbLock>>
    /\ IF ~ \E b \in bookings : b.id = id
       THEN /\ last' = Result("delete", "not_found", 0)
            /\ UNCHANGED <<pc, loc>>
       ELSE LET b == CHOOSE x \in bookings : x.id = id
            IN /\ pc' = [pc EXCEPT ![p] = "db_delete"]
               /\ loc' = [loc EXCEPT ![p] = [NoLocals EXCEPT !.e = b.event_id, !.row = id]]
               /\ UNCHANGED last

\* line 340: DELETE FROM bookings WHERE id = ?  (opens the transaction)
db_delete(p) ==
    /\ pc[p] = "db_delete"
    /\ dbLock = 0
    /\ dbLock' = p
    /\ txn' = [wl |-> waitlist, bk |-> {b \in bookings : b.id # loc[p].row}]
    /\ pc' = [pc EXCEPT ![p] = "db_commit"]
    /\ UNCHANGED <<capacity, mailings, nextMailingId, bookings, waitlist, tasks, setting,
                   nextBookingId, nextWaitId, nextTaskId, last, loc>>

\* line 341: conn.commit()
db_commit(p) ==
    /\ pc[p] = "db_commit"
    /\ bookings' = txn.bk
    /\ txn' = NoTxn
    /\ dbLock' = 0
    /\ pc' = [pc EXCEPT ![p] = "db_read_setting"]
    /\ UNCHANGED <<capacity, mailings, nextMailingId, waitlist, tasks, setting,
                   nextBookingId, nextWaitId, nextTaskId, last, loc>>

\* the read of the policy without the  except Exception : a failure ends the
\* call with an error
db_read_setting_raises(p, readFails) ==
    /\ pc[p] = "db_read_setting"
    /\ unchangedStore
    /\ UNCHANGED <<nextBookingId, nextWaitId, dbLock>>
    /\ IF readFails
       THEN /\ last' = Result("delete", "error", 0)
            /\ pc' = [pc EXCEPT ![p] = "idle"]
            /\ loc' = [loc EXCEPT ![p] = NoLocals]
       ELSE /\ pc' = [pc EXCEPT ![p] = IF AutoPromote(setting, FALSE)
                                      THEN "pf_read_seats" ELSE "db_notify"]
            /\ UNCHANGED <<last, loc>>

\* lines 353-358: SettingsService.get_setting("waitlist_auto_promote") on a
\* connection of its own;  except Exception: auto = True
db_read_setting(p, readFails) ==
    /\ pc[p] = "db_read_setting"
    /\ unchangedStore
    /\ UNCHANGED <<nextBookingId, nextWaitId, dbLock, last, loc>>
    /\ pc' = [pc EXCEPT ![p] = IF AutoPromote(setting, readFails)
                               THEN "pf_read_seats" ELSE "db_notify"]

\* lines 392-403 of _promote_from_waitlist: SELECT max_participants,
\* SELECT COALESCE(SUM(group_size), 0)
pf_read_seats(p) ==
    /\ pc[p] = "pf_read_seats"
    /\ unchangedStore
    /\ UNCHANGED <<nextBookingId, nextWaitId, dbLock, last>>
    /\ loc' = [loc EXCEPT ![p].booked = Occupied(loc[p].e)]
    /\ pc' = [pc EXCEPT ![p] = "pf_loop"]

\* lines 405-421: one turn of the while loop: SELECT the head, DELETE it,
\* INSERT the booking, seats += 1.  The first DELETE opens the transaction;
\* from then on the connection reads its own uncommitted rows.
pf_move(p) ==
    /\ pc[p] = "pf_loop"
    /\ dbLock \in {0, p}
    /\ LET wl == IF dbLock = p THEN txn.wl ELSE waitlist
           bk == IF dbLock = p THEN txn.bk ELSE bookings
       IN /\ loc[p].booked < capacity[loc[p].e]
          /\ EntriesIn(wl, loc[p].e) # {}
          /\ nextBookingId <= MaxBookings
          /\ \E w \in Heads(wl, loc[p].e) :
                /\ txn' = [wl |-> wl \ {w},
                           bk |-> bk \cup {BookingRow(nextBookingId, w.user_id,
                                                      loc[p].e, PromotedGroupSize)}]
                /\ loc' = [loc EXCEPT ![p].booked = loc[p].booked + 1,
                                      ![p].moved = Append(loc[p].moved, w.id)]
    /\ dbLock' = p
    /\ nextBookingId' = nextBookingId + 1
    /\ UNCHANGED <<capacity, mailings, nextMailingId, bookings, waitlist, tasks, setting,
                   nextWaitId, nextTaskId, last, pc>>

\* line 422: the loop has ended (no seat or no entry left); conn.commit()
pf_commit(p) ==
    /\ pc[p] = "pf_loop"
    /\ dbLock \in {0, p}
    /\ LET wl == IF dbLock = p THEN txn.wl ELSE waitlist
           bk == IF dbLock = p THEN txn.bk ELSE bookings
       IN /\ ~ (loc[p].booked < capacity[loc[p].e] /\ EntriesIn(wl, loc[p].e) # {})
          /\ waitlist' = wl
          /\ bookings' = bk
    /\ txn' = NoTxn
    /\ dbLock' = 0
    /\ last' = [Result("delete", "auto", 0) EXCEPT !.promoted = loc[p].moved]
    /\ pc' = [pc EXCEPT ![p] = "idle"]
    /\ loc' = [loc EXCEPT ![p] = NoLocals]
    /\ UNCHANGED <<capacity, mailings, nextMailingId, tasks, setting,
                   nextBookingId, nextWaitId, nextTaskId>>

\* line 362: notify_waitlist_users(event_id)
db_notify(p) ==
    /\ pc[p] = "db_notify"
    /\ dbLock = 0
    /\ \E st \in notify_waitlist_users(loc[p].e, waitlist, tasks, nextTaskId) :
          /\ st.nt <= MaxTasks + 1
          /\ tasks' = st.ts
          /\ nextTaskId' = st.nt
    /\ last' = Result("delete", "notify", 0)
    /\ pc' = [pc EXCEPT ![p] = "idle"]
    /\ loc' = [loc EXCEPT ![p] = NoLocals]
    /\ UNCHANGED <<capacity, mailings, nextMailingId, txn, bookings, waitlist, setting,
                   nextBookingId, nextWaitId, dbLock>>

\* a DELETE that finds the write lock taken gives up after the busy timeout:
\* "database is locked" leaves the call; a booking deletion that was already
\* committed stays
db_busy(p) ==
    /\ pc[p] \in {"db_delete", "pf_loop"}
    /\ dbLock \notin {0, p}
    /\ unchangedStore
    /\ UNCHANGED <<nextBookingId, nextWaitId, dbLock>>
    /\ last' = Result("delete", "locked", 0)
    /\ pc' = [pc EXCEPT ![p] = "idle"]
    /\ loc' = [loc EXCEPT ![p] = NoLocals]

BeginDelete == \E p \in Procs, id \in 1..MaxBookings : db_begin(p, id)
DeleteRow == \E p \in Procs : db_delete(p)
DeleteCommit == \E p \in Procs : db_commit(p)
DeleteReadSetting == \E p \in Procs, readFails \in BOOLEAN : db_read_setting(p, readFails)
PromoteReadSeats == \E p \in Procs : pf_read_seats(p)
PromoteMove == \E p \in Procs : pf_move(p)
PromoteCommit == \E p \in Procs : pf_commit(p)
DeleteNotify == \E p \in Procs : db_notify(p)
DeleteBusy == \E p \in Procs : db_busy(p)

\* a create_booking call that runs from its first to its last statement while
\* no connection holds the write lock; other calls may be between two of
\* their statements
UnlockedCreate == dbLock = 0 /\ CreateBooking

\* ---------------------------------------------------------- SpecFreedSeat
\* delete_booking_with_promotion calls interleaved statement by statement
\* with each other and with create_booking calls
NextFreedSeat ==
    \/ UnlockedCreate
    \/ QuietSetting
    \/ BeginDelete
    \/ DeleteRow
    \/ DeleteCommit
    \/ DeleteReadSetting
    \/ PromoteReadSeats
    \/ PromoteMove
    \/ PromoteCommit
    \/ DeleteNotify
    \/ DeleteBusy

SpecFreedSeat == Init /\ [][NextFreedSeat]_vars

\* --------------------------------------------------------- SpecReposition
\* update_waitlist_entry applied to every waitlist of up to MaxQueue entries:
\* a full event (one booking of one seat on capacity 1) whose waitlist, filled
\* by MaxQueue overflowing create_booking calls, has been put in some order
MaxQueue == 4

InitReposition ==
    /\ \E e \in Events, b \in Users, N \in 0..MaxQueue :
          \E usr \in [1..N -> Users] :
              \E pos \in {f \in [1..N -> 1..N] : \A i, j \in 1..N : f[i] = f[j] => i = j} :
                  /\ capacity = [x \in Events |-> 1]
                  /\ bookings = {BookingRow(1, b, e, 1)}
                  /\ waitlist = {WaitRow(i, e, usr[i], pos[i]) : i \in 1..N}
                  /\ nextWaitId = N + 1
    /\ nextBookingId = 2
    /\ tasks = {}
    /\ setting = NoSetting
    /\ nextTaskId = 1
    /\ last = NoLast
    /\ pc = [p \in Procs |-> "idle"]
    /\ loc = [p \in Procs |-> NoLocals]
    /\ dbLock = 0
    /\ mailings = {}
    /\ nextMailingId = 1
    /\ txn = NoTxn

RepositionQueue ==
    \E id \in 1..MaxQueue, np \in 0..(MaxQueue + 1) : update_waitlist_entry(id, np)

SpecReposition == InitReposition /\ [][RepositionQueue]_vars

\* ------------------------------------------------------------ SpecArrival
\* create, delete (either policy), confirm and removal, without reposition, on
\* every queue of up to MaxQueue entries in arrival order: a full event (one
\* booking that takes every seat) followed by that many overflowing
\* create_booking calls
InitArrival ==
    /\ \E c \in 1..MaxCapacity, e \in Events, b \in Users, N \in 0..MaxQueue :
          \E usr \in [1..N -> Users] :
              /\ capacity = [x \in Events |-> c]
              /\ bookings = {BookingRow(1, b, e, c)}
              /\ waitlist = {WaitRow(i, e, usr[i], i) : i \in 1..N}
              /\ nextWaitId = N + 1
    /\ nextBookingId = 2
    /\ tasks = {}
    /\ setting = NoSetting
    /\ nextTaskId = 1
    /\ last = NoLast
    /\ pc = [p \in Procs |-> "idle"]
    /\ loc = [p \in Procs |-> NoLocals]
    /\ dbLock = 0
    /\ mailings = {}
    /\ nextMailingId = 1
    /\ txn = NoTxn

ConfirmQueued ==
    \E id \in 1..MaxQueue, u \in Users \cup {UnknownUser} : confirm_waitlist(id, u)
RemoveQueued == \E id \in 1..MaxQueue : delete_waitlist_entry(id)

\* arrivals extend the queue as long as fewer than MaxQueue ids were handed out
CreateQueued ==
    \E e \in Events, u \in Users, n \in GroupSizes :
        create_booking_upto(e, u, n, MaxQueue)

NextArrival ==
    \/ CreateQueued
    \/ DeleteBooking
    \/ ConfirmQueued
    \/ RemoveQueued
    \/ UpsertSetting
    \/ delete_setting

SpecArrival == InitArrival /\ [][NextArrival]_vars

\* ================================================================= claims
Min(a, b) == IF a < b THEN a ELSE b
Channels == {"telegram", "vk", "max"}
Positions(e) == {w.position : w \in Entries(e)}
Contiguous(e) == Positions(e) = 1..Cardinality(Entries(e))
AutoDeleteStep == last'.op = "delete" /\ last'.res = "auto"
NotifyDeleteStep == last'.op = "delete" /\ last'.res = "notify"

\* C1: in every reachable state the summed group_size of each event's bookings
\* is at most the event's max_participants (create, update, delete, promotion
\* and confirm in any order).
C1_CapacityInvariant == \A e \in Events : Occupied(e) <= capacity[e]

\* C2: create_booking calls of several connections, interleaved statement by
\* statement, never commit bookings whose summed group_size exceeds
\* max_participants.
C2_NoOversellConcurrent ==
    \A e \in Events : SumGroupSize({b \in bookings : b.event_id = e}) <= capacity[e]

C4_PrefixAdmission ==
    [][\A e \in Events :
        Entries(e) # {} =>
            {b \in bookings' : b.event_id = e} = {b \in bookings : b.event_id = e}]_vars

\* C5: after any sequence of append, remove and reposition the positions of
\* the N entries of an event are exactly 1..N.
C5_WaitlistContiguity == \A e \in Events : Contiguous(e)

C5_Witness ==
    /\ last.op = "remove" /\ last.res = "ok"
    /\ \E w \in waitlist : w.id = 2 /\ w.position = 1

\* C6: after auto-promotion has removed the head of a waitlist, the remaining
\* entries are numbered 1..N-1; the positions of an event are 1..N in every
\* state reached through create, delete, confirm, remove and reposition.
C6_RenumberedAfterPromotion ==
    [][AutoDeleteStep =>
        \A e \in Events :
            Contiguous(e) =>
                /\ Contiguous(e)'
                /\ \A w1 \in Entries(e)' : \A w2 \in Entries(e)' :
                       \A o1 \in Entries(e) : \A o2 \in Entries(e) :
                           (o1.id = w1.id /\ o2.id = w2.id /\ o1.position < o2.position)
                               => w1.position < w2.position]_vars

\* C7: every promotion step of a delete under auto policy removes the entry
\* with the smallest position and creates one booking with group_size 1 for
\* its holder on the same event; the entries that stay are untouched and all
\* lie behind the promoted ones.
C7_FifoPromotion ==
    [][AutoDeleteStep =>
        LET removed == waitlist \ waitlist'
            created == bookings' \ bookings
            promoted == last'.promoted
        IN /\ waitlist' \subseteq waitlist
           /\ Cardinality(removed) = Len(promoted)
           /\ Cardinality(created) = Len(promoted)
           /\ \A r \in removed : \A w \in waitlist' :
                  w.event_id = r.event_id => r.position < w.position
           /\ \A k \in 1..Len(promoted) :
                  \E r \in removed : \E b \in created :
                      /\ r.id = promoted[k]
                      /\ b.id = nextBookingId + k - 1
                      /\ b.user_id = r.user_id
                      /\ b.event_id = r.event_id
                      /\ b.group_size = 1
                      /\ \A j \in 1..(k - 1) : \E q \in removed :
                             q.id = promoted[j] /\ q.position < r.position]_vars

C7_Witness ==
    /\ last.op = "delete" /\ last.res = "auto"
    /\ Len(last.promoted) = 2

\* C8: a delete under auto policy on an event with occupied <= capacity removes
\* the booking and promotes exactly min(free seats after the delete, waitlist
\* length) entries; afterwards the waitlist is empty or occupied = capacity.
C8_AutoPostCondition ==
    [][AutoDeleteStep =>
        \A b \in bookings \ bookings' :
            LET e == b.event_id
                free == capacity[e] - (Occupied(e) - b.group_size)
                k == Min(free, Cardinality(Entries(e)))
            IN Occupied(e) <= capacity[e] =>
                  /\ bookings \ bookings' = {b}
                  /\ Len(last'.promoted) = k
                  /\ Cardinality(Entries(e)') = Cardinality(Entries(e)) - k
                  /\ Cardinality(bookings') = Cardinality(bookings) - 1 + k
                  /\ Entries(e)' = {} \/ Occupied(e)' = capacity[e]]_vars

C8_Witness ==
    /\ last.op = "delete" /\ last.res = "auto" /\ Len(last.promoted) = 1
    /\ \E e \in Events :
          /\ capacity[e] = 2
          /\ Entries(e) = {}
          /\ Cardinality({b \in bookings : b.event_id = e}) = 2
          /\ \A b \in bookings : b.group_size = 1

C10_NoDuplicatePending ==
    \A t1 \in tasks : \A t2 \in tasks :
        (/\ t1.status = "pending" /\ t2.status = "pending"
         /\ t1.type = t2.type /\ t1.object_id = t2.object_id
         /\ t1.messenger = t2.messenger) => t1.id = t2.id

\* C11: complete_task on an existing task sets the status of that one task to
\* completed and reports no error, whether the task was pending or already
\* completed (a second call changes nothing); every other task, the other
\* channels' tasks of the same subject included, is left as it was; on an id
\* that does not exist it reports not-found and changes no task.
C11_CompleteIdempotent ==
    [][\A id \in 1..(MaxTasks + 1) :
        complete_task(id) =>
            IF \E t \in tasks : t.id = id
            THEN LET row == CHOOSE t \in tasks : t.id = id
                 IN /\ last'.res = "ok"
                    /\ tasks' = (tasks \ {row}) \cup {[row EXCEPT !.status = "completed"]}
                    /\ row.status = "completed" => tasks' = tasks
                    /\ \A t \in tasks : t.id # id => t \in tasks'
            ELSE /\ last'.res = "not_found"
                 /\ tasks' = tasks]_vars

C11_Witness ==
    /\ last.op = "complete" /\ last.res = "ok"
    /\ \E t1 \in tasks : \E t2 \in tasks :
          /\ t1.type = t2.type /\ t1.object_id = t2.object_id
          /\ t1.messenger # t2.messenger
          /\ t1.status = "completed" /\ t2.status = "pending"

\* C12: a task row changes only by its status going from pending to completed;
\* a completed row stays completed, a new row is pending and gets an id no row
\* ever had, and no poll of any channel with any cut-off time returns the id
\* of a completed task, whatever notify deletes, completions and confirms
\* come before or after.
C12_TaskStateMachine ==
    [][/\ \A t \in tasks : \A x \in tasks' :
              x.id = t.id =>
                  /\ [x EXCEPT !.status = t.status] = t
                  /\ t.status = "completed" => x.status = "completed"
                  /\ x.status \in {"pending", "completed"}
       /\ \A t \in tasks : t.id < nextTaskId
       /\ \A x \in tasks' :
              (\A t \in tasks : t.id # x.id) =>
                  /\ x.id >= nextTaskId /\ x.id < nextTaskId'
                  /\ x.status = "pending"
       /\ \A i \in 1..Len(Messengers), now \in DateTimes :
              \A x \in get_pending_tasks(tasks', Messengers[i], now) :
                  /\ \A t \in tasks : t.id = x.id => t.status = "pending"
                  /\ x.status = "pending"]_vars

\* a confirm has retired one entry's tasks, a channel has acknowledged one of
\* the other entry's, and a poll of another channel still returns a task
C12_Witness ==
    /\ last.op = "complete" /\ last.res = "ok"
    /\ Cardinality({t.object_id : t \in {x \in tasks : x.status = "completed"}}) = 2
    /\ \E i \in 1..Len(Messengers), now \in DateTimes :
          /\ get_pending_tasks(tasks, Messengers[i], now) # {}
          /\ \E t \in tasks : t.messenger = Messengers[i] /\ t.status = "completed"

\* C13: once a channel's task for a (type, object_id) has been completed, no
\* later state holds a pending task of the same type, object_id and channel:
\* no producer (mailing creation, mailing update, delete under the notify
\* policy) offers the subject to that channel again.
C13_AtMostOncePerChannel ==
    [][\A t \in tasks :
        t.status = "completed" =>
            \A x \in tasks' :
                ~ (/\ x.status = "pending"
                   /\ x.type = t.type
                   /\ x.object_id = t.object_id
                   /\ x.messenger = t.messenger)]_vars

\* C14: confirm_waitlist reports not-found when the entry does not exist,
\* otherwise not-authorized when the caller is not the entry's holder,
\* otherwise no-seats when occupied >= capacity; the three outcomes are tested
\* in that order and each leaves bookings, waitlist and tasks as they were.
C14_ConfirmValidation ==
    [][\A id \in 1..MaxWaitlist, u \in Users \cup {UnknownUser} :
        confirm_waitlist(id, u) =>
            LET untouched == /\ bookings' = bookings
                             /\ waitlist' = waitlist
                             /\ tasks' = tasks
            IN IF ~ \E w \in waitlist : w.id = id
               THEN last'.res = "not_found" /\ untouched
               ELSE LET w == CHOOSE x \in waitlist : x.id = id
                    IN IF u # w.user_id
                       THEN last'.res = "not_authorized" /\ untouched
                       ELSE IF Occupied(w.event_id) >= capacity[w.event_id]
                       THEN last'.res = "no_seats" /\ untouched
                       ELSE last'.res = "ok"]_vars

\* a caller who is not the holder is turned away on a full event
C14_Witness ==
    /\ last.op = "confirm" /\ last.res = "not_authorized"
    /\ tasks # {}
    /\ \E e \in Events : Entries(e) # {} /\ Occupied(e) >= capacity[e]

\* C15: a successful confirm_waitlist removes the entry, moves every entry of
\* the same event that was behind it one position forward and leaves the other
\* entries alone, adds exactly one booking with group_size 1 for the entry's
\* holder on the entry's event, and completes every waitlist task of that
\* entry on every channel (adding and changing no other task), so that no
\* poll returns a task of that entry afterwards.
C15_ConfirmSuccess ==
    [][\A id \in 1..MaxWaitlist, u \in Users :
        (confirm_waitlist(id, u) /\ last'.res = "ok") =>
            \E w \in waitlist :
                /\ w.id = id /\ w.user_id = u
                /\ waitlist' =
                       {IF x.event_id = w.event_id /\ x.position > w.position
                        THEN [x EXCEPT !.position = x.position - 1] ELSE x
                        : x \in waitlist \ {w}}
                /\ \A x \in waitlist' : x.id # id
                /\ \E b \in bookings' :
                       /\ bookings' = bookings \cup {b}
                       /\ \A x \in bookings : x.id # b.id
                       /\ b.user_id = w.user_id
                       /\ b.event_id = w.event_id
                       /\ b.group_size = 1
                /\ tasks' =
                       {IF t.type = "waitlist" /\ t.object_id = id
                        THEN [t EXCEPT !.status = "completed"] ELSE t : t \in tasks}
                /\ \A i \in 1..Len(Messengers), now \in DateTimes :
                       \A t \in get_pending_tasks(tasks', Messengers[i], now) :
                           ~ (t.type = "waitlist" /\ t.object_id = id)]_vars

\* entry 1 was notified on three channels and confirmed: its tasks are
\* completed, entry 2 has moved to position 1 and its tasks are still pending
C15_Witness ==
    /\ last.op = "confirm" /\ last.res = "ok"
    /\ Cardinality({t \in tasks : t.object_id = 1 /\ t.status = "completed"}) = 3
    /\ Cardinality({t \in tasks : t.object_id = 2 /\ t.status = "pending"}) = 3
    /\ \E w \in waitlist : w.id = 2 /\ w.position = 1
    /\ \E b \in bookings : b.id = last.id /\ b.group_size = 1

\* C16: when two holders, each with an outstanding notify task for an entry of
\* their own on the same event, confirm concurrently (their reads and writes
\* interleaved), the two calls do not both commit a booking beyond the free
\* seats: with both commits done the event's occupied seats are at most its
\* capacity (racing for one free seat, one of the two gets no-seats).
C16_ConfirmRace ==
    \A p \in Procs : \A q \in Procs :
        (/\ p # q
         /\ pc[p] = "cw_complete_tasks" /\ pc[q] = "cw_complete_tasks"
         /\ loc[p].e = loc[q].e
         /\ loc[p].row # loc[q].row
         /\ loc[p].u # loc[q].u
         /\ \E t \in tasks : t.type = "waitlist" /\ t.object_id = loc[p].row
                             /\ t.status = "pending"
         /\ \E t \in tasks : t.type = "waitlist" /\ t.object_id = loc[q].row
                             /\ t.status = "pending")
            => Occupied(loc[p].e) <= capacity[loc[p].e]

\* C17: update_waitlist_entry(entry, p) on an event whose N entries hold the
\* positions 1..N puts the entry at p clamped to [1, N]; when it moves to a
\* smaller position the entries from the new position up to just before the
\* old one go up by one, when it moves to a larger position the entries from
\* just after the old one up to the new position go down by one; every other
\* entry stays where it was, the entries other than the target keep their
\* relative order, and a move to the current position changes nothing.
C17_Reposition ==
    [][\A id \in 1..MaxQueue, p \in 0..(MaxQueue + 1) :
        (/\ update_waitlist_entry(id, p)
         /\ \E w \in waitlist : w.id = id /\ Contiguous(w.event_id)) =>
            LET w == CHOOSE x \in waitlist : x.id = id
                e == w.event_id
                N == Cardinality(Entries(e))
                o == w.position
                q == IF p < 1 THEN 1 ELSE IF p > N THEN N ELSE p
                Moved(x) == IF x.id = id THEN q
                            ELSE IF x.event_id = e /\ q < o /\ q <= x.position
                                    /\ x.position < o THEN x.position + 1
                            ELSE IF x.event_id = e /\ q > o /\ o < x.position
                                    /\ x.position <= q THEN x.position - 1
                            ELSE x.position
            IN /\ last'.res = "ok"
               /\ waitlist' = {[x EXCEPT !.position = Moved(x)] : x \in waitlist}
               /\ \A y \in waitlist' : y.id = id => y.position = q
               /\ \A x1 \in waitlist \ {w} : \A x2 \in waitlist \ {w} :
                      \A y1 \in waitlist' : \A y2 \in waitlist' :
                          (/\ y1.id = x1.id /\ y2.id = x2.id
                           /\ x1.event_id = e /\ x2.event_id = e
                           /\ x1.position < x2.position) => y1.position < y2.position
               /\ q = o => waitlist' = waitlist
               /\ Contiguous(e)']_vars

\* an entry has been moved to the head of a queue of four
C17_Witness ==
    /\ last.op = "reposition" /\ last.res = "ok"
    /\ Cardinality(waitlist) = 4
    /\ \E w \in waitlist : w.id = 4 /\ w.position = 1
    /\ \E w \in waitlist : w.id = 1 /\ w.position = 3

\* C18: while a remove, a reposition or a confirm is running (before, between
\* and after its individual writes, and when it dies between two of them) the
\* committed waitlist of an event whose positions were 1..N still has the
\* positions 1..M of its M entries: the delete or move of the target and the
\* shifts of the other entries become visible together or not at all.
C18_AtomicCompaction ==
    [][(\E p \in Procs : pc[p] # "idle" \/ pc'[p] # "idle") =>
          \A e \in Events : Contiguous(e) => Contiguous(e)']_vars

\* a remove has deleted the head of two entries and not yet compacted: the
\* gap exists inside the open transaction only
C18_Witness ==
    /\ \E p \in Procs : pc[p] = "dw_compact" /\ dbLock = p
    /\ {w.position : w \in txn.wl} = {2}
    /\ \E e \in Events : Contiguous(e) /\ Cardinality(Entries(e)) = 2

\* C19: a poll of a channel with a cut-off time returns exactly the tasks of
\* that channel that are pending and whose scheduled time is unset or not
\* later than the cut-off (both taken as points in time), and changes no task.
C19_PollResult ==
    [][last'.op = "poll" =>
          /\ tasks' = tasks
          /\ {last'.promoted[k] : k \in 1..Len(last'.promoted)} =
                 {t.id : t \in
                     {x \in tasks :
                         /\ x.messenger = last'.res
                         /\ x.status = "pending"
                         /\ \/ x.scheduled_at = NoTime
                            \/ Instant(FromIsoFormat(x.scheduled_at))
                                   <= Instant(FromIsoFormat(last'.id))}}]_vars

\* C20: with update_booking left out and every call run to completion, a step
\* from a state with occupied <= capacity on every event leads to such a state;
\* create_booking inserts a booking only when occupied + group_size <= capacity,
\* confirm_waitlist inserts one (of one seat) only when occupied < capacity, and
\* each booking inserted by the promotion after a delete (of one seat) finds
\* occupied < capacity at the moment it is inserted.
C20_AdmissionEnforcement ==
    [][(\A e \in Events : Occupied(e) <= capacity[e]) =>
          /\ \A e \in Events : Occupied(e)' <= capacity[e]
          /\ \A b \in bookings' \ bookings :
                 LET e == b.event_id
                     kept == bookings \cap bookings'
                 IN IF last'.op = "create"
                    THEN Occupied(e) + b.group_size <= capacity[e]
                    ELSE IF last'.op = "confirm"
                    THEN b.group_size = 1 /\ Occupied(e) < capacity[e]
                    ELSE /\ AutoDeleteStep
                         /\ b.group_size = 1
                         /\ OccupiedIn(kept, e) + (b.id - nextBookingId) < capacity[e]]_vars

\* one seat was freed by a delete and taken by a confirm, filling the event
C20_Witness ==
    /\ last.op = "confirm" /\ last.res = "ok"
    /\ \E e \in Events : capacity[e] = 2 /\ Occupied(e) = 2 /\ Entries(e) # {}
\* C21: update_booking with a group_size on an existing booking succeeds and
\* sets the booking's group_size to the given value whatever the event's
\* capacity and occupied seats are; it adds and removes no booking, touches no
\* waitlist entry and no task and promotes nobody, so that growing the size
\* can leave occupied above capacity and shrinking it leaves free seats next
\* to a non-empty waitlist; on a missing booking it reports not-found and
\* changes nothing.
C21_UpdateUnchecked ==
    [][\A id \in 1..MaxBookings, gs \in GroupSizes :
        update_booking(id, gs) =>
            /\ waitlist' = waitlist
            /\ tasks' = tasks
            /\ nextBookingId' = nextBookingId
            /\ IF \E b \in bookings : b.id = id
               THEN LET b == CHOOSE x \in bookings : x.id = id
                    IN /\ last'.res = "ok"
                       /\ bookings' = (bookings \ {b}) \cup {[b EXCEPT !.group_size = gs]}
                       /\ Occupied(b.event_id)' = Occupied(b.event_id) - b.group_size + gs
               ELSE /\ last'.res = "not_found"
                    /\ bookings' = bookings]_vars

\* a booking has been grown past the capacity of a full event with a waitlist
C21_Witness ==
    /\ last.op = "update" /\ last.res = "ok"
    /\ \E e \in Events : Occupied(e) > capacity[e] /\ Entries(e) # {}

C23_UniquePositions ==
    \A w1 \in waitlist : \A w2 \in waitlist :
        (w1.event_id = w2.event_id /\ w1.position = w2.position) => w1.id = w2.id

\* C24: a waitlist entry is turned into a booking at most once: whenever a
\* confirm_waitlist call commits its booking, the entry it confirms is still in
\* the committed waitlist (and leaves it with that commit), under every
\* statement-level interleaving of confirm calls; entry ids are never reused,
\* so a second call for the same entry commits no second booking.
C24_OneBookingPerEntry ==
    [][\A p \in Procs :
        (pc[p] = "cw_commit" /\ pc'[p] = "cw_complete_tasks"
         /\ bookings' # bookings) =>
            /\ \E w \in waitlist : w.id = loc[p].row
            /\ \A w \in waitlist' : w.id # loc[p].row]_vars

\* C25: every pending task of type waitlist refers to an entry that is still
\* in the waitlist: once an entry has left it (by confirm, by promotion after
\* a delete under the auto policy, or by delete_waitlist_entry) no poll of any
\* channel returns a task of that entry.
C25_NoStaleNotifications ==
    \A i \in 1..Len(Messengers), now \in DateTimes :
        \A t \in get_pending_tasks(tasks, Messengers[i], now) :
            t.type = "waitlist" => \E w \in waitlist : w.id = t.object_id

\* C26: under the auto policy, while a delete_booking_with_promotion call is
\* between the commit of its deletion and the read of the seats by its
\* promotion, and entries wait on the event, a create_booking call does not
\* take the event's last free seat: the seat freed by the deletion is still
\* there for the entry with the smallest position.
C26_FreedSeatToHead ==
    [][\A p \in Procs :
        LET e == loc[p].e
        IN (/\ pc[p] \in {"db_read_setting", "pf_read_seats"}
            /\ AutoPromote(setting, FALSE)
            /\ Entries(e) # {}
            /\ Occupied(e) < capacity[e]
            /\ last'.op = "create" /\ last'.res = "booked") =>
               Occupied(e)' < capacity[e]]_vars

\* C27: create_booking never stores a booking for a request on an event whose
\* waitlist is non-empty, whatever the requested group size and whatever the
\* promotion policy: the request is waitlisted behind the entries that wait.
C27_NoQueueJumping ==
    [][\A e \in Events, u \in Users, n \in GroupSizes :
        (create_booking(e, u, n) /\ Entries(e) # {}) =>
            /\ last'.res = "waitlisted"
            /\ bookings' = bookings]_vars

\* C28: without reposition, of two waitlist entries of one event the one that
\* was appended earlier (the smaller id) has the strictly smaller position,
\* before and after every create, delete under either policy, confirm and
\* removal; a delete under the auto policy promotes entries in the order they
\* arrived, each of them appended before every entry that keeps waiting.
ArrivalOrdered ==
    \A w1 \in waitlist : \A w2 \in waitlist :
        (w1.event_id = w2.event_id /\ w1.id < w2.id) => w1.position < w2.position

C28_ArrivalOrder ==
    [][/\ ArrivalOrdered
       /\ ArrivalOrdered'
       /\ AutoDeleteStep =>
             LET promoted == last'.promoted
             IN /\ \A j \in 1..Len(promoted) : \A k \in 1..Len(promoted) :
                       j < k => promoted[j] < promoted[k]
                /\ \A k \in 1..Len(promoted) :
                       \A r \in waitlist : \A w \in waitlist' :
                           (r.id = promoted[k] /\ w.event_id = r.event_id)
                               => r.id < w.id]_vars

\* entry 2 was removed from a queue of four, then a delete freed two seats and
\* promoted entries 1 and 3, in that order; entry 4 keeps waiting at position 3
C28_Witness ==
    /\ last.op = "delete" /\ last.res = "auto"
    /\ last.promoted = <<1, 3>>
    /\ \E w \in waitlist : w.id = 4 /\ w.position = 3
    /\ Cardinality(waitlist) = 1

\* C29: a confirm_waitlist call that runs to its end succeeds exactly when the
\* entry exists, the caller is its holder and the event has occupied <
\* capacity; the entry's position, the entries ahead of it, the promotion
\* policy and the existence of a notify task for the entry play no part, and
\* the caller then holds a new booking of one seat.
C29_ConfirmGate ==
    [][\A id \in 1..MaxWaitlist, u \in Users \cup {UnknownUser} :
        confirm_waitlist(id, u) =>
            /\ last'.res = "ok" <=>
                   \E w \in waitlist :
                       /\ w.id = id /\ w.user_id = u
                       /\ Occupied(w.event_id) < capacity[w.event_id]
            /\ last'.res = "ok" =>
                   /\ \A w \in waitlist' : w.id # id
                   /\ \E b \in bookings' \ bookings :
                          b.id = last'.id /\ b.user_id = u /\ b.group_size = 1]_vars

\* under the auto policy, with no task ever created, the second of two
\* entries was confirmed while the first keeps waiting
C29_Witness ==
    /\ last.op = "confirm" /\ last.res = "ok"
    /\ tasks = {} /\ nextTaskId = 1
    /\ setting = NoSetting
    /\ nextWaitId = 3
    /\ \E w \in waitlist : w.id = 1

\* C30: delete_booking_with_promotion reads waitlist_auto_promote after the
\* deletion of the booking is committed, and the read changes no row; when
\* the setting is absent or the read fails the call goes on to promote from
\* the waitlist, and such a call creates no task from there to its end; when
\* the setting is there and readable its value decides between promotion and
\* notification.  Whatever the read gives, the deleted booking stays deleted
\* and the call goes on.
C30_PolicyDefault ==
    [][\A p \in Procs :
        /\ \A readFails \in BOOLEAN :
              db_read_setting(p, readFails) =>
                  /\ \A b \in bookings : b.id # loc[p].row
                  /\ bookings' = bookings /\ waitlist' = waitlist /\ tasks' = tasks
                  /\ pc'[p] \in {"pf_read_seats", "db_notify"}
                  /\ (readFails \/ setting = NoSetting) => pc'[p] = "pf_read_seats"
                  /\ (~ readFails /\ setting # NoSetting) =>
                         (pc'[p] = "pf_read_seats" <=> DeserializeTruthy(setting))
        /\ (pc[p] \in {"pf_read_seats", "pf_loop"} /\ <<pc[p], loc[p]>>' # <<pc[p], loc[p]>>) =>
              /\ tasks' = tasks
              /\ \A b \in bookings' : b.id # loc[p].row
              /\ pc'[p] = "idle" => last'.res \in {"auto", "locked"}]_vars

\* the setting says notify, its read failed, and the call has promoted the head
C30_Witness ==
    /\ setting = [value |-> "0", type |-> "bool"]
    /\ \E p \in Procs :
          /\ pc[p] = "pf_loop" /\ dbLock = p
          /\ Len(loc[p].moved) = 1
          /\ \A b \in bookings : b.id # loc[p].row
    /\ tasks = {}

====
